---- MODULE Spec2Model ----
(***************************************************************************)
(* A model of api_exam (src/main.go): the CSV-to-JSON file converter       *)
(* processFile, the row validation chain inside its read loop, and the     *)
(* main path / event task of main.                                         *)
(*                                                                         *)
(* Two state machines share the module.  Spec runs one call of             *)
(* processFile against a CSV source that the environment supplies line by  *)
(* line; SpecMain runs main with processFile reduced to its file-level     *)
(* effect.  SpecLive and SpecMainLive add the fairness of a running        *)
(* goroutine.                                                              *)
(*                                                                         *)
(* Field values are strings; len() of the source is the byte length, and   *)
(* every value drawn here is ASCII, so Len is that length.                 *)
(***************************************************************************)
EXTENDS Integers, Sequences, FiniteSets, TLC

VARIABLES
    \* ---- one call of processFile (Spec) ----
    pc,        \* position inside processFile
    path,      \* the path argument
    src,       \* the physical lines of the source the reader has consumed so far
    fpr,       \* csv.Reader.FieldsPerRecord (0 until the first line sets it)
    rd,        \* what the last r.Read() returned
    header,    \* the Header Map (nil until the first record is read)
    line,      \* the loop counter of the read loop
    records,   \* the valid-records sequence
    errs,      \* the error rows, first row is the LINE_NUM/ERROR_MSG header
    out,       \* the JSON file in the output directory (<<>>: none)
    errOut,    \* the error report in the error directory
    exists,    \* the source file is still in the input directory
    retv,      \* the value processFile returned
    ioerrs,    \* the reads of the source that failed with an I/O error
    \* ---- main and the event task (SpecMain) ----
    mpc,       \* position of the main path
    epc,       \* position of the event task
    err,       \* main's err variable, which the event task's closure captures
    addRes,    \* what watcher.Add returned, before it is stored in err
    files,     \* the rest of the Glob result
    mcur,      \* the path main's processFile is working on
    ecur,      \* the event the event task is handling
    eres,      \* the result of the event task's processFile, before it is stored
    watching,  \* the watch on the input directory is attached
    events,    \* watcher.Events
    dir,       \* the .csv files in the input directory
    unseen,    \* files in dir that no processFile call has been given since they appeared
    exit       \* which Fatal call ended the process ("none": running)

fvars == <<pc, path, src, fpr, rd, header, line, records, errs, out, errOut, exists, retv,
           ioerrs>>
mvars == <<mpc, epc, err, addRes, files, mcur, ecur, eres, watching, events, dir, unseen,
           exit>>
vars == <<fvars, ioerrs, mvars>>

(***************************************************************************)
(* Bounds of the model.                                                    *)
(***************************************************************************)
MaxLines == 3     \* physical lines of one source file
MaxIOErr == 1     \* reads that fail with an I/O error before the counters are capped
MaxEvents == 2    \* capacity of the modelled watcher.Events queue

(***************************************************************************)
(* Schema: the column names and the limits of the validation rules.        *)
(***************************************************************************)
ID == "INTERNAL_ID"
FName == "FIRST_NAME"
MName == "MIDDLE_NAME"
LName == "LAST_NAME"
Phone == "PHONE_NUM"

IdLen == 8
NameMax == 15

(***************************************************************************)
(* Strings.                                                                *)
(***************************************************************************)
Char(s, i) == SubSeq(s, i, i)

Digits == {"0", "1", "2", "3", "4", "5", "6", "7", "8", "9"}

DigitVal(c) ==
    CASE c = "0" -> 0 [] c = "1" -> 1 [] c = "2" -> 2 [] c = "3" -> 3 [] c = "4" -> 4
      [] c = "5" -> 5 [] c = "6" -> 6 [] c = "7" -> 7 [] c = "8" -> 8 [] c = "9" -> 9

DigitChar(d) ==
    CASE d = 0 -> "0" [] d = 1 -> "1" [] d = 2 -> "2" [] d = 3 -> "3" [] d = 4 -> "4"
      [] d = 5 -> "5" [] d = 6 -> "6" [] d = 7 -> "7" [] d = 8 -> "8" [] d = 9 -> "9"

RECURSIVE ParseUint(_)
ParseUint(s) ==
    IF Len(s) = 0 THEN 0
    ELSE ParseUint(SubSeq(s, 1, Len(s) - 1)) * 10 + DigitVal(Char(s, Len(s)))

\* strconv.Atoi: an optional sign, then one or more decimal digits.  The value
\* is 0 when the syntax is wrong.  (No range error: the caller passes 8 bytes.)
Atoi(s) ==
    LET signed == Len(s) > 0 /\ Char(s, 1) \in {"+", "-"}
        body   == IF signed THEN SubSeq(s, 2, Len(s)) ELSE s
        ok     == Len(body) > 0 /\ \A i \in 1..Len(body) : Char(body, i) \in Digits
        mag    == IF ok THEN ParseUint(body) ELSE 0
    IN  [ok  |-> ok,
         val |-> IF signed /\ Char(s, 1) = "-" THEN 0 - mag ELSE mag]

\* fmt.Sprintf("%d", n)
RECURSIVE Itoa(_)
Itoa(n) ==
    IF n < 0 THEN "-" \o Itoa(0 - n)
    ELSE IF n < 10 THEN DigitChar(n)
    ELSE Itoa(n \div 10) \o DigitChar(n % 10)

\* fmt's %q of a string without characters that need escaping
Quote(s) == "\"" \o s \o "\""

\* phoneRegexp.MatchString: ^\d{3}-\d{3}-\d{4}$
phoneRegexp(s) ==
    /\ Len(s) = 12
    /\ \A i \in {1, 2, 3, 5, 6, 7, 9, 10, 11, 12} : Char(s, i) \in Digits
    /\ Char(s, 4) = "-"
    /\ Char(s, 8) = "-"

(***************************************************************************)
(* The row validation chain of processFile's read loop.                    *)
(***************************************************************************)
\* the header map built from the first record: a later column of the same
\* name overwrites the index of an earlier one (indices are zero-based)
BuildHeader(record) ==
    [name \in {record[i] : i \in 1..Len(record)} |->
        (CHOOSE i \in 1..Len(record) :
            /\ record[i] = name
            /\ \A j \in 1..Len(record) : record[j] = name => j <= i) - 1]

\* record[id]
Field(record, id) == record[id + 1]

MsgFieldCount(n, h) ==
    "err: number of fields: " \o Itoa(n) \o " does not match header: " \o Itoa(h)
MsgMissing(col) == "err: missing: " \o Quote(col) \o " error field in header"
MsgIdLen(v) == "err: id field: " \o Quote(v) \o " is not an 8 digit integer"
MsgIdParse(v) ==
    "err: id field: " \o Quote(v) \o " either empty, or an invalid integer, "
        \o "strconv.Atoi: parsing " \o Quote(v) \o ": invalid syntax"
MsgIdNegative(n) == "err: id: " \o Itoa(n) \o " should not be negative"
MsgNameLong(which, v) ==
    "err: " \o which \o " name field: " \o Quote(v) \o " should not exceed 15 characters"
MsgNameEmpty(which) == "err: " \o which \o " name field should not be empty"
MsgPhone(v) ==
    "err: phone field: " \o Quote(v) \o " either empty, or an invalid phone number"

Fail(msg) ==
    [ok |-> FALSE, msg |-> msg,
     rec |-> [InternalID |-> 0, Name |-> [First |-> "", Middle |-> "", Last |-> ""],
              Phone |-> ""]]
Pass(rec) == [ok |-> TRUE, msg |-> "", rec |-> rec]

\* len(record) != len(header): header is the map, so len(header) is the number
\* of distinct column names
CountMismatch(h, record) == Len(record) # Cardinality(DOMAIN h)

\* an id of any length
IdLenOkAlways(v) == TRUE

\* len(record[id]) != 8 is the failure
IdLenOk(v) == Len(v) = IdLen

\* lines 183-256: the outcome for one data row, the first failing check wins
ValidateRow(h, record) ==
    IF CountMismatch(h, record)
    THEN Fail(MsgFieldCount(Len(record), Cardinality(DOMAIN h)))
    ELSE IF ID \notin DOMAIN h THEN Fail(MsgMissing(ID))
    ELSE LET idv == Field(record, h[ID]) IN
    IF ~IdLenOk(idv) THEN Fail(MsgIdLen(idv))
    ELSE IF ~Atoi(idv).ok THEN Fail(MsgIdParse(idv))
    ELSE IF Atoi(idv).val < 0 THEN Fail(MsgIdNegative(Atoi(idv).val))
    ELSE IF FName \notin DOMAIN h THEN Fail(MsgMissing(FName))
    ELSE LET first == Field(record, h[FName]) IN
    IF Len(first) > NameMax THEN Fail(MsgNameLong("first", first))
    ELSE IF first = "" THEN Fail(MsgNameEmpty("first"))
    ELSE IF MName \notin DOMAIN h THEN Fail(MsgMissing(MName))
    ELSE LET middle == Field(record, h[MName]) IN
    IF Len(middle) > NameMax THEN Fail(MsgNameLong("middle", middle))
    ELSE IF LName \notin DOMAIN h THEN Fail(MsgMissing(LName))
    ELSE LET last == Field(record, h[LName]) IN
    IF Len(last) > NameMax THEN Fail(MsgNameLong("last", last))
    ELSE IF last = "" THEN Fail(MsgNameEmpty("last"))
    ELSE IF Phone \notin DOMAIN h THEN Fail(MsgMissing(Phone))
    ELSE LET phone == Field(record, h[Phone]) IN
    IF ~phoneRegexp(phone) THEN Fail(MsgPhone(phone))
    ELSE Pass([InternalID |-> Atoi(idv).val,
               Name |-> [First |-> first, Middle |-> middle, Last |-> last],
               Phone |-> phone])

\* errFunc that logs the error and leaves errs as it was
errFuncLogOnly(es, ln, msg) == es

\* errFunc: one more row {fmt.Sprintf("%d", line), err.Error()} in errs
errFunc(es, ln, msg) == Append(es, <<Itoa(ln), msg>>)

ErrsHeader == <<"LINE_NUM", "ERROR_MSG">>

(***************************************************************************)
(* The source file as the csv.Reader sees it.  A physical line is blank, a *)
(* record, or malformed with n fields parsed before the error.             *)
(***************************************************************************)
Blank == [t |-> "blank", f |-> <<>>, n |-> 0]
RecLine(fields) == [t |-> "rec", f |-> fields, n |-> Len(fields)]
Bad(k) == [t |-> "bad", f |-> <<>>, n |-> k]

Columns == <<ID, FName, MName, LName, Phone>>

HeaderRows ==
    { Columns,
      <<Phone, LName, "NOTE", MName, FName, ID>>,
      <<ID, FName, MName, LName, Phone, Phone>>,
      <<FName, MName, LName, Phone>>,
      <<ID, MName, LName, Phone>>,
      <<ID, FName, LName, Phone>>,
      <<ID, FName, MName, Phone>>,
      <<ID, FName, MName, LName>> }

\* a data row by column name
Row(id, first, middle, last, phone) ==
    [c \in {ID, FName, MName, LName, Phone} |->
        CASE c = ID -> id [] c = FName -> first [] c = MName -> middle
          [] c = LName -> last [] c = Phone -> phone]

Long16 == "Abcdefghijklmnop"
Long15 == "Abcdefghijklmno"

LogicalRows ==
    { Row("12345678", "Jane", "Q", "Doe", "555-123-4567"),
      Row("+1234567", Long15, "", "Doe", "555-123-4567"),
      Row("1234567", "Jane", "Q", "Doe", "555-123-4567"),
      Row("-0000001", "Jane", "Q", "Doe", "555-123-4567"),
      Row("1234567a", "Jane", "Q", "Doe", "555-123-4567"),
      Row("12345678", Long16, "Q", "Doe", "555-123-4567"),
      Row("12345678", "", "Q", "Doe", "555-123-4567"),
      Row("12345678", "Jane", Long16, "Doe", "555-123-4567"),
      Row("12345678", "Jane", "Q", Long16, "555-123-4567"),
      Row("12345678", "Jane", "Q", "", "555-123-4567"),
      Row("12345678", "Jane", "Q", "Doe", "5551234567"),
      Row("12345678", "Jane", "Q", "Doe", ""),
      Row("1234567", "", Long16, "", "555-123-456a") }

\* the fields of a logical row in the column order of a header row
Layout(hdr, lr) ==
    [i \in 1..Len(hdr) |-> IF hdr[i] \in DOMAIN lr THEN lr[hdr[i]] ELSE "n/a"]

HasRec(s) == \E i \in 1..Len(s) : s[i].t = "rec"
FirstRec(s) == s[CHOOSE i \in 1..Len(s) : s[i].t = "rec" /\ \A j \in 1..(i - 1) : s[j].t # "rec"].f

\* the non-blank lines that follow the first record of s
RowsRead(s) ==
    Cardinality({i \in 1..Len(s) : s[i].t # "blank"
                    /\ \E j \in 1..(i - 1) : s[j].t = "rec"})

\* the lines the source may continue with: before its first record a header
\* row; right after it any of the rows above laid out under it, or that
\* layout one field short or one field long; later a valid or an invalid
\* row; a malformed line anywhere
NextLines(s) ==
    IF ~HasRec(s)
    THEN {RecLine(h) : h \in HeaderRows} \cup {Bad(0), Bad(5)}
    ELSE LET hdr  == FirstRec(s)
             good == Layout(hdr, Row("12345678", "Jane", "Q", "Doe", "555-123-4567"))
             poor == Layout(hdr, Row("1234567", "Jane", "Q", "Doe", "555-123-4567"))
         IN  IF RowsRead(s) = 0
             THEN {RecLine(Layout(hdr, lr)) : lr \in LogicalRows}
                    \cup {RecLine(Tail(good)), RecLine(good \o <<"x">>), Bad(1)}
             ELSE {RecLine(good), RecLine(poor), Bad(1)}

\* r.numLine: the physical lines consumed
NumLine(s) == Len(s)

NoRead == [kind |-> "none", rec |-> <<>>, msg |-> ""]
ReadEOF == [kind |-> "eof", rec |-> <<>>, msg |-> ""]
ReadErr(msg) == [kind |-> "err", rec |-> <<>>, msg |-> msg]
ReadRec(fields) == [kind |-> "rec", rec |-> fields, msg |-> ""]
IOErrMsg == "read: input/output error"

\* what r.Read() returns for a non-blank line that ends at physical line n,
\* FieldsPerRecord being fp: a parse error, a wrong number of fields (checked
\* once FieldsPerRecord is set), or the record
ReadLine(fp, ln, n) ==
    IF ln.t = "bad" THEN ReadErr("parse error on line " \o Itoa(n))
    ELSE IF fp > 0 /\ Len(ln.f) # fp
         THEN ReadErr("record on line " \o Itoa(n) \o ": wrong number of fields")
    ELSE ReadRec(ln.f)

\* FieldsPerRecord == 0: the first line read sets it to the number of fields
\* it parsed, whether or not the line was in error
SetFieldsPerRecord(fp, n) == IF fp = 0 THEN n ELSE fp

(***************************************************************************)
(* Paths and the encoders of the two outputs.                              *)
(***************************************************************************)
Upper == "ABCDEFGHIJKLMNOPQRSTUVWXYZ"
Lower == "abcdefghijklmnopqrstuvwxyz"

ToLowerChar(c) ==
    IF \E i \in 1..Len(Upper) : Char(Upper, i) = c
    THEN Char(Lower, CHOOSE i \in 1..Len(Upper) : Char(Upper, i) = c)
    ELSE c

\* strings.ToLower
RECURSIVE ToLower(_)
ToLower(s) == IF Len(s) = 0 THEN s ELSE ToLowerChar(Char(s, 1)) \o ToLower(SubSeq(s, 2, Len(s)))

\* filepath.Base: what follows the last separator
Base(p) ==
    LET seps == {i \in 1..Len(p) : Char(p, i) = "/"}
        from == IF seps = {} THEN 1 ELSE (CHOOSE i \in seps : \A j \in seps : j <= i) + 1
    IN  SubSeq(p, from, Len(p))

\* filepath.Ext: the suffix from the last dot of the last element, or ""
Ext(p) ==
    LET b    == Base(p)
        dots == {i \in 1..Len(b) : Char(b, i) = "."}
    IN  IF dots = {} THEN SubSeq(b, 1, 0)
        ELSE SubSeq(b, CHOOSE i \in dots : \A j \in dots : j <= i, Len(b))

\* strings.TrimSuffix(filepath.Base(path), ext) joined to "json" by "."
JsonName(p) == SubSeq(Base(p), 1, Len(Base(p)) - Len(Ext(p))) \o "." \o "json"

\* the object json.MarshalIndent writes for one Record, as its lines; the
\* middle name has omitempty
MarshalRecord(r) ==
    <<"{", "\"id\": " \o Itoa(r.InternalID), "\"name\": {",
      "\"first\": " \o Quote(r.Name.First)>>
    \o (IF r.Name.Middle = "" THEN <<>> ELSE <<"\"middle\": " \o Quote(r.Name.Middle)>>)
    \o <<"\"last\": " \o Quote(r.Name.Last), "}", "\"phone\": " \o Quote(r.Phone), "}">>

RECURSIVE MarshalAll(_)
MarshalAll(rs) == IF rs = <<>> THEN <<>> ELSE MarshalRecord(Head(rs)) \o MarshalAll(Tail(rs))

\* json.MarshalIndent(records, "", "  "): records is declared without a value
\* and is the nil slice until the first append; a nil slice encodes as null
MarshalIndent(rs) ==
    IF Len(rs) = 0 THEN <<"null">> ELSE <<"[">> \o MarshalAll(rs) \o <<"]">>

NoFile == [name |-> "", data |-> <<>>]

Paths == {"input/People.CSV", "input/notes.txt"}

(***************************************************************************)
(* processFile, one step per library call that can fail or block.          *)
(***************************************************************************)
NonBlank(s) == Cardinality({i \in 1..Len(s) : s[i].t # "blank"})

Blanks(k) == [i \in 1..k |-> Blank]

\* lines 153-161: the extension test and os.Open
Open ==
    /\ pc = "call"
    /\ IF ToLower(Ext(path)) # ".csv"
       THEN /\ pc' = "ret"
            /\ retv' = "nil"
            /\ line' = line
       ELSE \E ok \in (IF exists THEN BOOLEAN ELSE {FALSE}) :
                IF ok
                THEN pc' = "read" /\ line' = 1 /\ retv' = retv
                ELSE pc' = "ret" /\ retv' = "open error" /\ line' = line
    /\ UNCHANGED <<path, src, fpr, rd, header, records, errs, out, errOut, exists, ioerrs, mvars>>

\* line 166, r.Read(): blank lines are skipped, the next line is returned
ReadNext ==
    /\ pc = "read"
    /\ \E k \in 0..(MaxLines - Len(src) - 1) :
       \E ln \in NextLines(src) :
            /\ src' = src \o Blanks(k) \o <<ln>>
            /\ rd' = ReadLine(fpr, ln, NumLine(src'))
            /\ fpr' = SetFieldsPerRecord(fpr, ln.n)
    /\ pc' = "body"
    /\ UNCHANGED <<path, header, line, records, errs, out, errOut, exists, retv, ioerrs, mvars>>

\* line 166, r.Read() at the end of the input
ReadEnd ==
    /\ pc = "read"
    /\ rd' = ReadEOF
    /\ pc' = "body"
    /\ UNCHANGED <<path, src, fpr, header, line, records, errs, out, errOut, exists, retv, ioerrs, mvars>>

\* line 166, r.Read() failing with an error of the underlying file: no line
\* is consumed, and the reader returns one empty field with the error
ReadIOErr ==
    /\ pc = "read"
    /\ ioerrs < MaxIOErr
    /\ ioerrs' = ioerrs + 1
    /\ rd' = ReadErr(IOErrMsg)
    /\ fpr' = SetFieldsPerRecord(fpr, 1)
    /\ pc' = "body"
    /\ UNCHANGED <<path, src, header, line, records, errs, out, errOut, exists, retv, mvars>>

\* lines 167-257: one pass of the loop body on what Read returned
Body ==
    /\ pc = "body"
    /\ IF rd.kind = "eof"
       THEN /\ pc' = "write"
            /\ UNCHANGED <<header, line, records, errs>>
       ELSE /\ pc' = "read"
            /\ line' = line + 1
            /\ IF rd.kind = "err"
               THEN /\ errs' = errFunc(errs, line, rd.msg)
                    /\ UNCHANGED <<header, records>>
               ELSE IF header.nil
               THEN /\ header' = [nil |-> FALSE, m |-> BuildHeader(rd.rec)]
                    /\ UNCHANGED <<records, errs>>
               ELSE LET r == ValidateRow(header.m, rd.rec) IN
                    /\ IF r.ok
                       THEN records' = Append(records, r.rec) /\ errs' = errs
                       ELSE errs' = errFunc(errs, line, r.msg) /\ records' = records
                    /\ header' = header
    /\ UNCHANGED <<path, src, fpr, rd, out, errOut, exists, retv, ioerrs, mvars>>

\* lines 259-274: the records are encoded and written to the output directory
WriteJSON ==
    /\ pc = "write"
    /\ \E ok \in BOOLEAN :
        IF ok
        THEN /\ out' = [name |-> JsonName(path), data |-> MarshalIndent(records)]
             /\ pc' = "report"
             /\ retv' = retv
        ELSE /\ pc' = "ret"
             /\ retv' = "write error"
             /\ out' = out
    /\ UNCHANGED <<path, src, fpr, rd, header, line, records, errs, errOut, exists, ioerrs, mvars>>

\* lines 276-291: the error report, when errs holds more than its header
\* row; a failure to open or to write it ends in logrus Fatal
WriteErrors ==
    /\ pc = "report"
    /\ IF Len(errs) > 1
       THEN \E res \in {"ok", "open fails", "write fails"} :
            /\ errOut' = CASE res = "ok" -> [name |-> Base(path), data |-> errs]
                           [] res = "open fails" -> errOut
                           [] res = "write fails" -> [name |-> Base(path), data |-> <<>>]
            /\ pc' = IF res = "ok" THEN "remove" ELSE "fatal"
       ELSE /\ pc' = "remove"
            /\ errOut' = errOut
    /\ UNCHANGED <<path, src, fpr, rd, header, line, records, errs, out, exists, retv, ioerrs, mvars>>

\* lines 293-298: the source file is removed
Remove ==
    /\ pc = "remove"
    /\ \E ok \in BOOLEAN :
        IF ok
        THEN exists' = FALSE /\ retv' = "nil"
        ELSE exists' = exists /\ retv' = "remove error"
    /\ pc' = "ret"
    /\ UNCHANGED <<path, src, fpr, rd, header, line, records, errs, out, errOut, ioerrs, mvars>>

MainIdle ==
    /\ mpc = "off" /\ epc = "off" /\ err = "nil" /\ addRes = "nil"
    /\ files = <<>> /\ mcur = "" /\ ecur = [Name |-> "", Op |-> ""] /\ eres = "nil"
    /\ watching = FALSE /\ events = <<>> /\ dir = {} /\ unseen = {}
    /\ exit = "none"

Init ==
    /\ pc = "call"
    /\ path \in Paths
    /\ src = <<>>
    /\ fpr = 0
    /\ rd = NoRead
    /\ header = [nil |-> TRUE, m |-> <<>>]
    /\ line = 0
    /\ records = <<>>
    /\ errs = <<ErrsHeader>>
    /\ out = NoFile
    /\ errOut = NoFile
    /\ exists \in BOOLEAN
    /\ retv = ""
    /\ ioerrs = 0
    /\ MainIdle

Next ==
    \/ Open
    \/ ReadNext
    \/ ReadEnd
    \/ ReadIOErr
    \/ Body
    \/ WriteJSON
    \/ WriteErrors
    \/ Remove

Spec == Init /\ [][Next]_vars

(***************************************************************************)
(* The same call with the fairness of a running goroutine, and with a read *)
(* error that recurs: past MaxIOErr failed reads the counters ioerrs, line  *)
(* and errs are no longer advanced, which keeps the state space finite.    *)
(***************************************************************************)
ReadIOErrAgain ==
    /\ pc = "read"
    /\ ioerrs >= MaxIOErr
    /\ rd' = ReadErr(IOErrMsg)
    /\ fpr' = SetFieldsPerRecord(fpr, 1)
    /\ pc' = "capped"
    /\ UNCHANGED <<path, src, header, line, records, errs, out, errOut, exists, retv, ioerrs, mvars>>

\* lines 170-173 on such an error: errFunc and continue, counters capped
BodyCapped ==
    /\ pc = "capped"
    /\ pc' = "read"
    /\ UNCHANGED <<path, src, fpr, rd, header, line, records, errs, out, errOut, exists,
                   retv, ioerrs, mvars>>

NextLive ==
    \/ Next
    \/ ReadIOErrAgain
    \/ BodyCapped

SpecLive == Init /\ [][NextLive]_vars /\ WF_vars(NextLive)

(***************************************************************************)
(* The loop body on one data row, for every combination of field values:   *)
(* the state is that of a call which has consumed the header row and has   *)
(* just read the row.                                                      *)
(***************************************************************************)
IdVals == {"12345678", "00000000", "+1234567", "1234567", "-1234567", "-0000001",
           "1234567a", ""}
FirstVals == {"Jane", "", Long15, Long16}
MiddleVals == {"", "Q", Long16}
LastVals == {"Doe", "", Long16}
PhoneVals == {"555-123-4567", "5551234567", "", "555-123-456a", "555-123-45678"}

AllRows ==
    {Row(i, f, m, l, p) : i \in IdVals, f \in FirstVals, m \in MiddleVals,
                          l \in LastVals, p \in PhoneVals}

DataRows(hdr) ==
    {Layout(hdr, lr) : lr \in AllRows}
        \cup {Tail(Layout(hdr, lr)) : lr \in LogicalRows}
        \cup {Layout(hdr, lr) \o <<"x">> : lr \in LogicalRows}

InitRow ==
    /\ pc = "body"
    /\ path = "input/People.CSV"
    /\ \E hdr \in HeaderRows : \E row \in DataRows(hdr) :
        /\ src = <<RecLine(hdr), RecLine(row)>>
        /\ fpr = Len(hdr)
        /\ rd = ReadLine(Len(hdr), RecLine(row), 2)
        /\ header = [nil |-> FALSE, m |-> BuildHeader(hdr)]
    /\ line = 2
    /\ records = <<>>
    /\ errs = <<ErrsHeader>>
    /\ out = NoFile
    /\ errOut = NoFile
    /\ exists = TRUE
    /\ retv = ""
    /\ ioerrs = 0
    /\ MainIdle

NextRow == Body

SpecRow == InitRow /\ [][NextRow]_vars

(***************************************************************************)
(* main: the main path and the event task.  processFile is reduced to its  *)
(* effect on the input directory and to its result; a call is in progress  *)
(* while the caller is at "proc".                                          *)
(***************************************************************************)
Files == {"input/a.csv", "input/b.csv"}

FileIdle ==
    /\ pc = "off" /\ path = "" /\ src = <<>> /\ fpr = 0 /\ rd = NoRead
    /\ header = [nil |-> TRUE, m |-> <<>>] /\ line = 0 /\ records = <<>>
    /\ errs = <<ErrsHeader>> /\ out = NoFile /\ errOut = NoFile
    /\ exists = FALSE /\ retv = "" /\ ioerrs = 0

Running == exit = "none"

\* filepath.Glob returns the matches in lexical order
InOrder(f) == f \in dir
Sorted(S) == SelectSeq(<<"input/a.csv", "input/b.csv">>, InOrder)

\* the results of processFile(p): nil with the source removed, an error with
\* the source left in place, or no return at all (Fatal on the error report)
Outcomes(p) == IF p \in dir THEN {"nil", "error", "fatal"} ELSE {"error"}

\* a watch that is attached as soon as the watcher exists
WatchAttachedAtStart == TRUE

\* events reach watcher.Events only for a watched directory; the watch is the
\* one watcher.Add attaches after the loop over the initial files
WatchAttached == watching

\* the event the directory reports for a change, when it is watched
Notify(q, name, op) ==
    IF WatchAttached /\ Len(q) < MaxEvents THEN Append(q, [Name |-> name, Op |-> op]) ELSE q

\* lines 81-87: the watcher is created and the event task started
Start ==
    /\ Running
    /\ mpc = "start"
    /\ \E ok \in BOOLEAN :
        IF ok
        THEN /\ mpc' = "glob"
             /\ epc' = "select"
             /\ UNCHANGED <<err, exit>>
        ELSE /\ err' = "error"
             /\ exit' = "could not initialize watcher"
             /\ mpc' = "exited"
             /\ epc' = epc
    /\ UNCHANGED <<addRes, files, mcur, ecur, eres, watching, events, dir, unseen, fvars>>

\* lines 115-118: the initial enumeration
Glob ==
    /\ Running
    /\ mpc = "glob"
    /\ \E ok \in BOOLEAN :
        IF ok
        THEN /\ files' = Sorted(dir)
             /\ err' = "nil"
             /\ mpc' = "loop"
             /\ exit' = exit
        ELSE /\ files' = files
             /\ err' = "error"
             /\ exit' = "glob"
             /\ mpc' = "exited"
    /\ UNCHANGED <<epc, addRes, mcur, ecur, eres, watching, events, dir, unseen, fvars>>

\* lines 119-121: the next initial file is handed to processFile
MainCall ==
    /\ Running
    /\ mpc = "loop"
    /\ files # <<>>
    /\ mcur' = Head(files)
    /\ files' = Tail(files)
    /\ unseen' = unseen \ {Head(files)}
    /\ mpc' = "proc"
    /\ UNCHANGED <<epc, err, addRes, ecur, eres, watching, events, dir, exit, fvars>>

\* lines 121-124: processFile returns, a failure is logged
MainReturn ==
    /\ Running
    /\ mpc = "proc"
    /\ \E res \in Outcomes(mcur) :
        /\ dir' = IF res = "nil" THEN dir \ {mcur} ELSE dir
        /\ events' = IF res = "nil" THEN Notify(events, mcur, "remove") ELSE events
        /\ IF res = "fatal"
           THEN exit' = "error report" /\ mpc' = "exited" /\ err' = err
           ELSE exit' = exit /\ mpc' = "loop" /\ err' = res
    /\ UNCHANGED <<epc, addRes, files, mcur, ecur, eres, watching, unseen, fvars>>

\* line 128, the call: the watch is attached or the call fails
AddWatch ==
    /\ Running
    /\ mpc = "loop"
    /\ files = <<>>
    /\ \E ok \in BOOLEAN :
        /\ watching' = ok
        /\ addRes' = IF ok THEN "nil" ELSE "error"
    /\ mpc' = "store"
    /\ UNCHANGED <<epc, err, files, mcur, ecur, eres, events, dir, unseen, exit, fvars>>

\* line 128, the assignment: the result is stored in err
StoreAdd ==
    /\ Running
    /\ mpc = "store"
    /\ err' = addRes
    /\ mpc' = "check"
    /\ UNCHANGED <<epc, addRes, files, mcur, ecur, eres, watching, events, dir, unseen, exit,
                   fvars>>

\* lines 129-133: err is tested, then the main path waits for the event task
CheckAdd ==
    /\ Running
    /\ mpc = "check"
    /\ IF err # "nil"
       THEN exit' = "could not watch directory" /\ mpc' = "exited"
       ELSE exit' = exit /\ mpc' = "wait"
    /\ UNCHANGED <<epc, err, addRes, files, mcur, ecur, eres, watching, events, dir, unseen,
                   fvars>>

\* lines 92-100: an event is received; a write or a create is handed to
\* processFile, anything else is dropped
Receive ==
    /\ Running
    /\ epc = "select"
    /\ events # <<>>
    /\ ecur' = Head(events)
    /\ events' = Tail(events)
    /\ IF Head(events).Op \in {"write", "create"}
       THEN epc' = "proc" /\ unseen' = unseen \ {Head(events).Name}
       ELSE epc' = "select" /\ unseen' = unseen
    /\ UNCHANGED <<mpc, err, addRes, files, mcur, eres, watching, dir, exit, fvars>>

\* line 100, the call: processFile returns to the event task
EventReturn ==
    /\ Running
    /\ epc = "proc"
    /\ \E res \in Outcomes(ecur.Name) :
        /\ dir' = IF res = "nil" THEN dir \ {ecur.Name} ELSE dir
        /\ events' = IF res = "nil" THEN Notify(events, ecur.Name, "remove") ELSE events
        /\ IF res = "fatal"
           THEN exit' = "error report" /\ epc' = "exited" /\ eres' = eres
           ELSE exit' = exit /\ epc' = "store" /\ eres' = res
    /\ UNCHANGED <<mpc, err, addRes, files, mcur, ecur, watching, unseen, fvars>>

\* line 100, the assignment: err is the variable of main that the closure
\* captured, not a variable of the event task
EventStore ==
    /\ Running
    /\ epc = "store"
    /\ err' = eres
    /\ epc' = "test"
    /\ UNCHANGED <<mpc, addRes, files, mcur, ecur, eres, watching, events, dir, unseen, exit,
                   fvars>>

\* lines 101-103: err is tested and a failure logged, back to the select
EventTest ==
    /\ Running
    /\ epc = "test"
    /\ epc' = "select"
    /\ UNCHANGED <<mpc, err, addRes, files, mcur, ecur, eres, watching, events, dir, unseen,
                   exit, fvars>>

\* the environment: a .csv file appears in the input directory
Create ==
    /\ Running
    /\ \E f \in Files \ dir :
        /\ ~WatchAttached \/ Len(events) < MaxEvents
        /\ dir' = dir \cup {f}
        /\ unseen' = unseen \cup {f}
        /\ events' = Notify(events, f, "create")
    /\ UNCHANGED <<mpc, epc, err, addRes, files, mcur, ecur, eres, watching, exit, fvars>>

\* the environment: a file of the watched directory is written to
Write ==
    /\ Running
    /\ WatchAttached
    /\ Len(events) < MaxEvents
    /\ \E f \in dir : events' = Notify(events, f, "write")
    /\ UNCHANGED <<mpc, epc, err, addRes, files, mcur, ecur, eres, watching, dir, unseen,
                   exit, fvars>>

InitMain ==
    /\ mpc = "start"
    /\ epc = "off"
    /\ err = "nil"
    /\ addRes = "nil"
    /\ files = <<>>
    /\ mcur = ""
    /\ ecur = [Name |-> "", Op |-> ""]
    /\ eres = "nil"
    /\ watching = FALSE
    /\ events = <<>>
    /\ dir \in SUBSET Files
    /\ unseen = dir
    /\ exit = "none"
    /\ FileIdle

MainPath == Start \/ Glob \/ MainCall \/ MainReturn \/ AddWatch \/ StoreAdd \/ CheckAdd
EventTask == Receive \/ EventReturn \/ EventStore \/ EventTest

NextMain ==
    \/ Start
    \/ Glob
    \/ MainCall
    \/ MainReturn
    \/ AddWatch
    \/ StoreAdd
    \/ CheckAdd
    \/ Receive
    \/ EventReturn
    \/ EventStore
    \/ EventTest
    \/ Create
    \/ Write

SpecMain == InitMain /\ [][NextMain]_vars

\* a goroutine that can run does run; the environment owes nothing
SpecMainLive == SpecMain /\ WF_vars(MainPath) /\ WF_vars(EventTask)

(***************************************************************************)
(*                              The claims                                 *)
(***************************************************************************)
Last(q) == q[Len(q)]

Terminal == pc \in {"ret", "fatal"}

\* C1: inside processFile every I/O failure on a .csv file (open, JSON write,
\* error report open or write, remove) ends the call by returning an error to
\* the caller; none of them terminates the process.
C1_IOFailuresReturn == pc # "fatal"

\* C2: when processFile has written the JSON output and no row validated, the
\* output is the empty array []; and once the report step is over, the error
\* report has been written if and only if a row error was accumulated.
C2_EmptyArrayAndReport ==
    /\ (out.name # "" /\ records = <<>>) => out.data = <<"[]">>
    /\ pc = "remove" => (errOut.name # "" <=> Len(errs) > 1)

\* the required columns a header map lacks
Missing(h) == {Columns[i] : i \in 1..Len(Columns)} \ DOMAIN h

\* the first required column, in the order of the chain, that h lacks
FirstMissing(h) ==
    Columns[CHOOSE i \in 1..Len(Columns) :
                /\ Columns[i] \notin DOMAIN h
                /\ \A j \in 1..(i - 1) : Columns[j] \in DOMAIN h]

\* the rules of one column on its value
BreaksRule(col, v) ==
    CASE col = ID -> Len(v) # 8 \/ ~Atoi(v).ok \/ Atoi(v).val < 0
      [] col = FName -> Len(v) > 15 \/ v = ""
      [] col = MName -> Len(v) > 15
      [] col = LName -> Len(v) > 15 \/ v = ""
      [] col = Phone -> ~phoneRegexp(v)

\* a rule that the chain evaluates before it looks for column c fails
FailsBefore(h, record, c) ==
    \/ Len(record) # Cardinality(DOMAIN h)
    \/ \E i \in 1..Len(Columns) :
        /\ \A j \in 1..i : Columns[j] # c
        /\ BreaksRule(Columns[i], record[h[Columns[i]] + 1])

\* a read of a line, the header consumed and lacking a required column
C3_Case == pc = "body" /\ ~header.nil /\ Missing(header.m) # {} /\ rd.kind # "eof"

\* C3 as stated: under a header that lacks a required column, every data row
\* yields exactly one Row Error whose message names a missing column, and no
\* Record, whatever the row's other fields hold.
C3_AlwaysNamesMissing ==
    [][(C3_Case /\ rd.kind = "rec") =>
            /\ records' = records
            /\ \E c \in Missing(header.m) : errs' = errFunc(errs, line, MsgMissing(c))]_vars

\* C3 as amended: under such a header every line read yields exactly one Row
\* Error and no Record; for a row the reader returned, the message names the
\* first missing column when no rule evaluated before that column fails, and
\* otherwise it is not a missing-column message.
C3_NamesMissingUnlessEarlier ==
    [][C3_Case =>
            /\ records' = records
            /\ Len(errs') = Len(errs) + 1
            /\ SubSeq(errs', 1, Len(errs)) = errs
            /\ Last(errs')[1] = Itoa(line)
            /\ rd.kind = "rec" =>
                 LET c == FirstMissing(header.m) IN
                 IF FailsBefore(header.m, rd.rec, c)
                 THEN \A d \in Missing(header.m) : Last(errs')[2] # MsgMissing(d)
                 ELSE Last(errs')[2] = MsgMissing(c)]_vars

\* C3: both cases have happened: a row named the missing column, another
\* failed an earlier rule
C3_Witness ==
    /\ ~header.nil
    /\ Missing(header.m) = {FName}
    /\ Len(errs) = 3
    /\ errs[2][2] = MsgMissing(FName)
    /\ errs[3][2] = MsgIdLen("1234567")

\* the value of column c in a row under a header row
Value(hdr, row, c) == row[CHOOSE i \in 1..Len(hdr) : hdr[i] = c /\ \A j \in 1..Len(hdr) : hdr[j] = c => j <= i]

Has(hdr, c) == \E i \in 1..Len(hdr) : hdr[i] = c

\* the reference chain of the 15 rules: 0 when the row violates none, else
\* the number of the earliest rule it violates
RefRule(hdr, row) ==
    IF Len(row) # Len(hdr) THEN 1
    ELSE IF ~Has(hdr, ID) THEN 2
    ELSE IF Len(Value(hdr, row, ID)) # 8 THEN 3
    ELSE IF ~Atoi(Value(hdr, row, ID)).ok THEN 4
    ELSE IF Atoi(Value(hdr, row, ID)).val < 0 THEN 5
    ELSE IF ~Has(hdr, FName) THEN 6
    ELSE IF Len(Value(hdr, row, FName)) > 15 THEN 7
    ELSE IF Value(hdr, row, FName) = "" THEN 8
    ELSE IF ~Has(hdr, MName) THEN 9
    ELSE IF Len(Value(hdr, row, MName)) > 15 THEN 10
    ELSE IF ~Has(hdr, LName) THEN 11
    ELSE IF Len(Value(hdr, row, LName)) > 15 THEN 12
    ELSE IF Value(hdr, row, LName) = "" THEN 13
    ELSE IF ~Has(hdr, Phone) THEN 14
    ELSE IF ~phoneRegexp(Value(hdr, row, Phone)) THEN 15
    ELSE 0

\* the messages that report a violation of rule k (rule 1 is reported by the
\* reader or by the loop body)
RefMsgs(k, hdr, row) ==
    CASE k = 1 -> {MsgFieldCount(Len(row), Len(hdr)),
                   "record on line 2: wrong number of fields"}
      [] k = 2 -> {MsgMissing(ID)}
      [] k = 3 -> {MsgIdLen(Value(hdr, row, ID))}
      [] k = 4 -> {MsgIdParse(Value(hdr, row, ID))}
      [] k = 5 -> {MsgIdNegative(Atoi(Value(hdr, row, ID)).val)}
      [] k = 6 -> {MsgMissing(FName)}
      [] k = 7 -> {MsgNameLong("first", Value(hdr, row, FName))}
      [] k = 8 -> {MsgNameEmpty("first")}
      [] k = 9 -> {MsgMissing(MName)}
      [] k = 10 -> {MsgNameLong("middle", Value(hdr, row, MName))}
      [] k = 11 -> {MsgMissing(LName)}
      [] k = 12 -> {MsgNameLong("last", Value(hdr, row, LName))}
      [] k = 13 -> {MsgNameEmpty("last")}
      [] k = 14 -> {MsgMissing(Phone)}
      [] k = 15 -> {MsgPhone(Value(hdr, row, Phone))}

\* the outcome of the loop body on the row src[2] under the header row src[1]
\* is that of the reference chain
MatchesReference ==
    LET hdr == src[1].f
        row == src[2].f
        k   == RefRule(hdr, row)
    IN  IF k = 0
        THEN /\ errs = <<ErrsHeader>>
             /\ records = <<[InternalID |-> Atoi(Value(hdr, row, ID)).val,
                             Name |-> [First |-> Value(hdr, row, FName),
                                       Middle |-> Value(hdr, row, MName),
                                       Last |-> Value(hdr, row, LName)],
                             Phone |-> Value(hdr, row, Phone)]>>
        ELSE /\ records = <<>>
             /\ Len(errs) = 2
             /\ errs[2][1] = "2"
             /\ errs[2][2] \in RefMsgs(k, hdr, row)

\* C4: for every header row (any order, extra or repeated names) and every
\* data row, the outcome of processFile's chain is that of the reference chain
\* of the 15 ordered rules, the field count being compared with the header
\* row's field count.
C4_ChainIsReference == pc = "read" => MatchesReference

\* the line numbers of the error rows increase strictly
Increasing(es) ==
    \A i \in 2..Len(es) : \A j \in (i + 1)..Len(es) : Atoi(es[i][1]).val < Atoi(es[j][1]).val

\* C5: the line number of a Row Error is the 1-based position in the file of
\* the line that failed, the header line and every earlier line counted; the
\* header line is never reported; the error rows are in strictly increasing
\* line-number order.
C5_LineNumbers ==
    [][/\ Increasing(errs')
       /\ (pc = "body" /\ errs' # errs /\ rd.msg # IOErrMsg)
            => Last(errs')[1] = Itoa(NumLine(src))
       /\ (pc = "body" /\ header.nil /\ rd.kind = "rec") => errs' = errs]_vars

\* C6: once the header is consumed, each line read adds exactly one element to
\* exactly one of records and errs and the loop goes on to the next read; the
\* loop is left only at the end of the input; so the Records and Row Errors
\* add up to the lines the reader returned (every line but the blank ones it
\* skips) and its failed reads, less the header.
C6_OnePerLine ==
    [][/\ (pc = "body" /\ ~header.nil /\ rd.kind # "eof") =>
            /\ pc' = "read"
            /\ line' = line + 1
            /\ \/ Len(records') = Len(records) + 1 /\ errs' = errs
               \/ Len(errs') = Len(errs) + 1 /\ records' = records
       /\ (pc = "body" /\ pc' # "read") => (rd.kind = "eof" /\ pc' = "write")
       /\ pc' \in {"read", "write"} =>
            /\ line' - 1 = NonBlank(src') + ioerrs'
            /\ Len(records') + (Len(errs') - 1) =
                    NonBlank(src') + ioerrs' - (IF header'.nil THEN 0 ELSE 1)]_vars

\* C6: the end of an input with a valid row and an invalid row was reached
C6_Witness == pc = "write" /\ Len(records) = 1 /\ Len(errs) = 2 /\ Len(src) = 3

\* C7: a processFile failure on the event task is only logged: in no
\* interleaving with the main path does it make the process exit.
C7_FailureOnlyLogged == exit = "could not watch directory" => addRes # "nil"

\* C8: at most one processFile is in progress; the initial enumeration is
\* over before the watch is attached.
C8_OneAtATime ==
    /\ ~(mpc = "proc" /\ epc = "proc")
    /\ epc = "proc" => (files = <<>> /\ mpc \in {"store", "check", "wait", "exited"})
    /\ watching => (files = <<>> /\ mpc \in {"store", "check", "wait", "exited"})

\* C8: the event task is inside processFile, the main path waiting
C8_Witness == epc = "proc" /\ mpc = "wait" /\ ecur.Name \in dir

\* C9: every processFile on a path that opened terminates, whatever the
\* reader returns, a recurring read error included.
C9_Terminates == [](pc = "read" => <>Terminal)

\* C10: every .csv file present at startup or created later, also while the
\* initial files are being processed, is eventually passed to processFile,
\* the process not exiting and every create after the watch being reported.
C10_EveryFileProcessed ==
    \A f \in Files : [](f \in unseen => <>(f \notin unseen \/ ~Running))

====
